---------------------------- MODULE Spec2Model ----------------------------
(* The frost lexer (src/lexer/src/lib.rs, tokens.rs, span.rs) as a state    *)
(* machine.  A source text is a sequence of characters; every character     *)
(* has a UTF-8 width, because the code indexes the text both by character   *)
(* (peek: chars().nth) and by byte (input.len(), input[a..b]).              *)
EXTENDS Integers, Sequences, FiniteSets, TLC

(***************************************************************************)
(* Bounds of the model.                                                    *)
(***************************************************************************)
\* longest text over the general alphabet
MaxLen == 4
\* longest text over the keyword alphabet
MaxLenKw == 4
\* longest text over the operator alphabet
MaxLenOps == 2
\* longest text over the comparison alphabet
MaxLenEq == 4
\* longest text over the comment alphabet
MaxLenCm == 5
\* calls returning Eof that are counted
MaxEofs == 2
\* texts over the letters of "if", "elif", "else" and '^'
MaxLenCf == 4
\* texts and counts for calls of advance and next
MaxLenAdv == 2
MaxCount == 3
\* lead characters before a digit run at the edge of the integer range
MaxLenLead == 1

(***************************************************************************)
(* Characters.  An ASCII character is the one-character string; a          *)
(* non-ASCII character is named by its code point.                         *)
(***************************************************************************)
NBSP == "U+00A0"
IDEOGRAPHIC_SPACE == "U+3000"
E_ACUTE == "U+00E9"
\* Option<char>::None
None == "None"

\* char::len_utf8
len_utf8(c) ==
    IF c = IDEOGRAPHIC_SPACE THEN 3
    ELSE IF c \in {NBSP, E_ACUTE} THEN 2
    ELSE 1

\* char::is_whitespace (Unicode White_Space), on the characters of the model
is_whitespace(c) == c \in {" ", "\t", "\n", "\r", NBSP, IDEOGRAPHIC_SPACE}

Digits == {"0", "1", "2", "3", "4", "5", "6", "7", "8", "9"}

DigitVal(c) ==
    CASE c = "0" -> 0 [] c = "1" -> 1 [] c = "2" -> 2 [] c = "3" -> 3
      [] c = "4" -> 4 [] c = "5" -> 5 [] c = "6" -> 6 [] c = "7" -> 7
      [] c = "8" -> 8 [] c = "9" -> 9

\* char::is_digit(10)
is_digit(c) == c \in Digits

\* 'a'..='z' | 'A'..='Z'
Letters ==
    {"a", "b", "c", "d", "e", "f", "g", "h", "i", "j", "k", "l", "m",
     "n", "o", "p", "q", "r", "s", "t", "u", "v", "w", "x", "y", "z",
     "A", "B", "C", "D", "E", "F", "G", "H", "I", "J", "K", "L", "M",
     "N", "O", "P", "Q", "R", "S", "T", "U", "V", "W", "X", "Y", "Z"}

\* matches!(ch, 'a'..='z' | 'A'..='Z' | '0'..='9' | '_')
is_keyword_char(c) == c \in Letters \cup Digits \cup {"_"}

(***************************************************************************)
(* Strings: String::len and byte-range indexing.                           *)
(***************************************************************************)
RECURSIVE byte_offset(_, _)
\* the byte offset of the character with (0-based) character index k
byte_offset(s, k) ==
    IF k = 0 THEN 0 ELSE byte_offset(s, k - 1) + len_utf8(s[k])

\* String::len: the length in bytes
input_len(s) == byte_offset(s, Len(s))

\* str::is_char_boundary
is_char_boundary(s, b) == \E k \in 0..Len(s) : byte_offset(s, k) = b

\* the character index whose byte offset is b (b a character boundary)
char_index(s, b) == CHOOSE k \in 0..Len(s) : byte_offset(s, k) = b

\* &input[a..b]: ok = FALSE is the panic of str indexing
slice(s, a, b) ==
    IF a <= b /\ is_char_boundary(s, a) /\ is_char_boundary(s, b)
    THEN [ok |-> TRUE, str |-> SubSeq(s, char_index(s, a) + 1, char_index(s, b))]
    ELSE [ok |-> FALSE, str |-> <<>>]

(***************************************************************************)
(* isize::from_str.  A value is held as its canonical decimal rendering    *)
(* (isize::to_string): no leading zeros, "-" before a negative value.      *)
(***************************************************************************)
\* the digits of isize::MAX = 2^63 - 1 and of |isize::MIN| = 2^63
ISIZE_MAX == <<"9","2","2","3","3","7","2","0","3","6",
               "8","5","4","7","7","5","8","0","7">>
ISIZE_MIN_ABS == <<"9","2","2","3","3","7","2","0","3","6",
                   "8","5","4","7","7","5","8","0","8">>

RECURSIVE strip_zeros(_)
strip_zeros(ds) ==
    IF Len(ds) > 1 /\ Head(ds) = "0" THEN strip_zeros(Tail(ds)) ELSE ds

RECURSIVE digits_le(_, _)
\* a <= b for two digit strings of the same length
digits_le(a, b) ==
    IF a = <<>> THEN TRUE
    ELSE IF DigitVal(Head(a)) < DigitVal(Head(b)) THEN TRUE
    ELSE IF DigitVal(Head(a)) > DigitVal(Head(b)) THEN FALSE
    ELSE digits_le(Tail(a), Tail(b))

\* whether the canonical magnitude m is at most the magnitude bound
fits(m, bound) ==
    \/ Len(m) < Len(bound)
    \/ Len(m) = Len(bound) /\ digits_le(m, bound)

\* str::parse::<isize>: ok = FALSE is Err(ParseIntError)
parse(s) ==
    LET signed == s # <<>> /\ Head(s) \in {"+", "-"}
        body == IF signed THEN Tail(s) ELSE s
        neg == signed /\ Head(s) = "-"
        m == strip_zeros(body)
    IN  IF body = <<>> \/ \E i \in 1..Len(body) : ~is_digit(body[i])
        THEN [ok |-> FALSE, value |-> <<>>]
        ELSE IF ~fits(m, IF neg THEN ISIZE_MIN_ABS ELSE ISIZE_MAX)
        THEN [ok |-> FALSE, value |-> <<>>]
        ELSE [ok |-> TRUE,
              value |-> IF neg /\ m # <<"0">> THEN <<"-">> \o m ELSE m]

(***************************************************************************)
(* Tokens (tokens.rs) and spans (span.rs).                                 *)
(***************************************************************************)
\* Token::new(kind, start, size), with Span::new(start, start + size); name
\* is the payload of Identifier, value the payload of IntLiteral
Token(kind, name, value, start, size) ==
    [outcome |-> "token", kind |-> kind, name |-> name, value |-> value,
     start |-> start, end |-> start + size, ch |-> None, at |-> 0]

\* panic!("Unexpected character: '{}' at position: {}", ch, self.position),
\* and the panics of assert!, str indexing and unwrap (ch = None)
Panic(msg, ch, at) ==
    [outcome |-> "panic", kind |-> msg, name |-> <<>>, value |-> <<>>,
     start |-> 0, end |-> 0, ch |-> ch, at |-> at]

\* no call of next_token has returned yet
NoResult ==
    [outcome |-> "none", kind |-> "", name |-> <<>>, value |-> <<>>,
     start |-> 0, end |-> 0, ch |-> None, at |-> 0]

\* Span::len
span_len(t) == t.end - t.start

\* a variant of Display with the renderings of <= and >= exchanged
Display_swapped(t) ==
    CASE t.kind = "Val" -> <<"v", "a", "l">>
      [] t.kind = "Var" -> <<"v", "a", "r">>
      [] t.kind = "Fn" -> <<"f", "n">>
      [] t.kind = "If" -> <<"i", "f">>
      [] t.kind = "Elif" -> <<"e", "l", "i", "f">>
      [] t.kind = "Else" -> <<"e", "l", "s", "e">>
      [] t.kind = "LParen" -> <<"(">>
      [] t.kind = "RParen" -> <<")">>
      [] t.kind = "LBracket" -> <<"[">>
      [] t.kind = "RBracket" -> <<"]">>
      [] t.kind = "LBrace" -> <<"{">>
      [] t.kind = "RBrace" -> <<"}">>
      [] t.kind = "Comma" -> <<",">>
      [] t.kind = "Colon" -> <<":">>
      [] t.kind = "Assign" -> <<"=">>
      [] t.kind = "Plus" -> <<"+">>
      [] t.kind = "Minus" -> <<"-">>
      [] t.kind = "Multiply" -> <<"*">>
      [] t.kind = "Exponent" -> <<"^">>
      [] t.kind = "Divide" -> <<"/">>
      [] t.kind = "Modulus" -> <<"%">>
      [] t.kind = "Equals" -> <<"=", "=">>
      [] t.kind = "NotEquals" -> <<"!", "=">>
      [] t.kind = "LessThan" -> <<"<">>
      [] t.kind = "GreaterThan" -> <<">">>
      [] t.kind = "LessThanOrEqual" -> <<">", "=">>
      [] t.kind = "GreaterThanOrEqual" -> <<"<", "=">>
      [] t.kind = "And" -> <<"&", "&">>
      [] t.kind = "Or" -> <<"|", "|">>
      [] t.kind = "Not" -> <<"!">>
      [] t.kind = "Identifier" -> t.name
      [] t.kind = "IntLiteral" -> t.value
      [] t.kind = "Eof" -> <<"E", "O", "F">>

\* impl Display for TokenKind: the rendering of a token's kind, as characters
Display(t) ==
    CASE t.kind = "Val" -> <<"v", "a", "l">>
      [] t.kind = "Var" -> <<"v", "a", "r">>
      [] t.kind = "Fn" -> <<"f", "n">>
      [] t.kind = "If" -> <<"i", "f">>
      [] t.kind = "Elif" -> <<"e", "l", "i", "f">>
      [] t.kind = "Else" -> <<"e", "l", "s", "e">>
      [] t.kind = "LParen" -> <<"(">>
      [] t.kind = "RParen" -> <<")">>
      [] t.kind = "LBracket" -> <<"[">>
      [] t.kind = "RBracket" -> <<"]">>
      [] t.kind = "LBrace" -> <<"{">>
      [] t.kind = "RBrace" -> <<"}">>
      [] t.kind = "Comma" -> <<",">>
      [] t.kind = "Colon" -> <<":">>
      [] t.kind = "Assign" -> <<"=">>
      [] t.kind = "Plus" -> <<"+">>
      [] t.kind = "Minus" -> <<"-">>
      [] t.kind = "Multiply" -> <<"*">>
      [] t.kind = "Exponent" -> <<"^">>
      [] t.kind = "Divide" -> <<"/">>
      [] t.kind = "Modulus" -> <<"%">>
      [] t.kind = "Equals" -> <<"=", "=">>
      [] t.kind = "NotEquals" -> <<"!", "=">>
      [] t.kind = "LessThan" -> <<"<">>
      [] t.kind = "GreaterThan" -> <<">">>
      [] t.kind = "LessThanOrEqual" -> <<"<", "=">>
      [] t.kind = "GreaterThanOrEqual" -> <<">", "=">>
      [] t.kind = "And" -> <<"&", "&">>
      [] t.kind = "Or" -> <<"|", "|">>
      [] t.kind = "Not" -> <<"!">>
      [] t.kind = "Identifier" -> t.name
      [] t.kind = "IntLiteral" -> t.value
      [] t.kind = "Eof" -> <<"E", "O", "F">>

(***************************************************************************)
(* The Lexer's primitive operations (lib.rs 16-80).  The text and the      *)
(* cursor are passed in; an operation that moves the cursor returns it.    *)
(***************************************************************************)
\* Lexer::peek: self.input.chars().nth(self.position + offset)
peek(inp, pos, offset) ==
    IF pos + offset < Len(inp) THEN inp[pos + offset + 1] ELSE None

\* what advance gives when assert!(count > 0) fails: no cursor
AssertionFailed == -1

\* a variant of advance without the clamp
advance_unclamped(inp, pos, count) ==
    IF ~(count > 0) THEN AssertionFailed ELSE pos + count

\* Lexer::advance: the new cursor, clamped to input.len(), or AssertionFailed
\* when count is not positive ("Count must be greater than zero")
advance(inp, pos, count) ==
    IF ~(count > 0) THEN AssertionFailed
    ELSE IF pos + count > input_len(inp) THEN input_len(inp) ELSE pos + count

\* Lexer::next: the character at the cursor, and the cursor advanced by one
Lexer_next(inp, pos) ==
    [ch |-> peek(inp, pos, 0), position |-> advance(inp, pos, 1)]

\* what one activation of next_token does: it returns ret with the cursor at
\* position, or (recurse) calls self.next_token() with the cursor at position
Return(pos, r) == [position |-> pos, ret |-> r, recurse |-> FALSE]
Recurse(pos) == [position |-> pos, ret |-> NoResult, recurse |-> TRUE]

\* a variant of consume that reads start after advancing
consume_late_start(inp, pos, kind, count) ==
    IF ~(count > 0)
    THEN Return(pos, Panic("Count must be greater than zero", None, pos))
    ELSE IF ~(pos + count <= input_len(inp))
    THEN Return(pos, Panic("Count exceeds input length", None, pos))
    ELSE Return(advance(inp, pos, count),
                Token(kind, <<>>, <<>>, advance(inp, pos, count), count))

\* Lexer::consume, with its two assertions
consume(inp, pos, kind, count) ==
    IF ~(count > 0)
    THEN Return(pos, Panic("Count must be greater than zero", None, pos))
    ELSE IF ~(pos + count <= input_len(inp))
    THEN Return(pos, Panic("Count exceeds input length", None, pos))
    ELSE Return(advance(inp, pos, count), Token(kind, <<>>, <<>>, pos, count))

RECURSIVE keyword_end(_, _)
\* the loop of Lexer::read_keyword: the cursor it ends at
keyword_end(inp, pos) ==
    IF peek(inp, pos, 0) # None /\ is_keyword_char(peek(inp, pos, 0))
    THEN keyword_end(inp, advance(inp, pos, 1))
    ELSE pos

\* Lexer::read_keyword: the cursor it ends at and self.input[start..position]
read_keyword(inp, pos) ==
    LET end == keyword_end(inp, pos)
    IN  [position |-> end, text |-> slice(inp, pos, end)]

RECURSIVE integer_end(_, _)
\* the loop of Lexer::read_integer: the cursor it ends at
integer_end(inp, pos) ==
    IF peek(inp, pos, 0) # None /\ is_digit(peek(inp, pos, 0))
    THEN integer_end(inp, advance(inp, pos, 1))
    ELSE pos

\* Lexer::read_integer: the cursor it ends at, self.input[start..position]
\* and its parse
read_integer(inp, pos) ==
    LET end == integer_end(inp, pos)
        text == slice(inp, pos, end)
    IN  [position |-> end, text |-> text,
         parsed |-> IF text.ok THEN parse(text.str)
                    ELSE [ok |-> FALSE, value |-> <<>>]]

\* a variant of comment_end that looks for the newline from the start of the
\* text (self.input.find('\n')) rather than from the cursor
comment_end_find(inp, pos) ==
    IF \E k \in 1..Len(inp) : inp[k] = "\n"
    THEN (CHOOSE k \in 1..Len(inp) :
              inp[k] = "\n" /\ \A j \in 1..(k - 1) : inp[j] # "\n") - 1
    ELSE Len(inp)

RECURSIVE comment_end(_, _)
\* while self.peek(0) != Some('\n') && self.peek(0).is_some() { advance(1) }
comment_end(inp, pos) ==
    IF peek(inp, pos, 0) # "\n" /\ peek(inp, pos, 0) # None
    THEN comment_end(inp, advance(inp, pos, 1))
    ELSE pos

(***************************************************************************)
(* The arms of next_token's match (lib.rs 82-187).                         *)
(***************************************************************************)
\* a variant of eof_arm that reads the character with next() and so advances
eof_arm_next(inp, pos) ==
    Return(advance(inp, pos, 1), Token("Eof", <<>>, <<>>, pos, 0))

\* let Some(ch) = self.peek(0) else { return Token::new(Eof, position, 0) }
eof_arm(inp, pos) == Return(pos, Token("Eof", <<>>, <<>>, pos, 0))

\* a variant of whitespace_arm that advances by two
whitespace_arm_two(inp, pos) == Recurse(advance(inp, pos, 2))

\* ch if ch.is_whitespace() => { self.advance(1); self.next_token() }
whitespace_arm(inp, pos) == Recurse(advance(inp, pos, 1))

\* the arms that consume one character whatever follows
SingleKind(ch) ==
    CASE ch = "(" -> "LParen"   [] ch = ")" -> "RParen"
      [] ch = "[" -> "LBracket" [] ch = "]" -> "RBracket"
      [] ch = "{" -> "LBrace"   [] ch = "}" -> "RBrace"
      [] ch = "," -> "Comma"    [] ch = ":" -> "Colon"
      [] ch = "+" -> "Plus"     [] ch = "-" -> "Minus"
      [] ch = "*" -> "Multiply" [] ch = "%" -> "Modulus"

SingleChars == {"(", ")", "[", "]", "{", "}", ",", ":", "+", "-", "*", "%"}

single_arm(inp, pos) == consume(inp, pos, SingleKind(peek(inp, pos, 0)), 1)

\* the arms of '=', '<', '>' and '!': two characters when '=' follows
EqualsChars == {"=", "<", ">", "!"}

WithEqualsKind(ch) ==
    CASE ch = "=" -> "Equals" [] ch = "<" -> "LessThanOrEqual"
      [] ch = ">" -> "GreaterThanOrEqual" [] ch = "!" -> "NotEquals"

AloneKind(ch) ==
    CASE ch = "=" -> "Assign" [] ch = "<" -> "LessThan"
      [] ch = ">" -> "GreaterThan" [] ch = "!" -> "Not"

\* a variant of equals_arm without the lookahead
equals_arm_no_lookahead(inp, pos) ==
    consume(inp, pos, AloneKind(peek(inp, pos, 0)), 1)

\* a variant of equals_arm that tests the character at the cursor, not the one
\* after it, before it consumes two
equals_arm_peek0(inp, pos) ==
    IF peek(inp, pos, 0) = "="
    THEN consume(inp, pos, WithEqualsKind(peek(inp, pos, 0)), 2)
    ELSE consume(inp, pos, AloneKind(peek(inp, pos, 0)), 1)

equals_arm(inp, pos) ==
    IF peek(inp, pos, 1) = "="
    THEN consume(inp, pos, WithEqualsKind(peek(inp, pos, 0)), 2)
    ELSE consume(inp, pos, AloneKind(peek(inp, pos, 0)), 1)

\* '/' => a line comment when '/' follows, else Divide
slash_arm(inp, pos) ==
    IF peek(inp, pos, 1) = "/"
    THEN Recurse(comment_end(inp, pos))
    ELSE consume(inp, pos, "Divide", 1)

\* '&' and '|': And / Or when doubled, else panic!
PairKind(ch) == CASE ch = "&" -> "And" [] ch = "|" -> "Or"

PairChars == {"&", "|"}

\* a variant of pair_arm whose '|' arm was copied from the '&' arm with its
\* lookahead left as '&'
pair_arm_copied(inp, pos) ==
    IF peek(inp, pos, 1) = "&"
    THEN consume(inp, pos, PairKind(peek(inp, pos, 0)), 2)
    ELSE Return(pos, Panic("Unexpected character", peek(inp, pos, 0), pos))

pair_arm(inp, pos) ==
    IF peek(inp, pos, 1) = peek(inp, pos, 0)
    THEN consume(inp, pos, PairKind(peek(inp, pos, 0)), 2)
    ELSE Return(pos, Panic("Unexpected character", peek(inp, pos, 0), pos))

\* a variant of letter_arm whose Fn token has the size of Val and Var
letter_arm_fn_size(inp, pos) ==
    LET start == pos
        r == read_keyword(inp, pos)
        kw == r.text.str
    IN  IF ~r.text.ok
        THEN Return(r.position, Panic("byte index is not a char boundary", None, start))
        ELSE IF kw = <<"v", "a", "l">>
        THEN Return(r.position, Token("Val", <<>>, <<>>, start, 3))
        ELSE IF kw = <<"v", "a", "r">>
        THEN Return(r.position, Token("Var", <<>>, <<>>, start, 3))
        ELSE IF kw = <<"f", "n">>
        THEN Return(r.position, Token("Fn", <<>>, <<>>, start, 3))
        ELSE Return(r.position, Token("Identifier", kw, <<>>, start, input_len(kw)))

\* a variant of letter_arm that also knows the keyword "if"
letter_arm_with_if(inp, pos) ==
    LET start == pos
        r == read_keyword(inp, pos)
        kw == r.text.str
    IN  IF ~r.text.ok
        THEN Return(r.position, Panic("byte index is not a char boundary", None, start))
        ELSE IF kw = <<"v", "a", "l">>
        THEN Return(r.position, Token("Val", <<>>, <<>>, start, 3))
        ELSE IF kw = <<"v", "a", "r">>
        THEN Return(r.position, Token("Var", <<>>, <<>>, start, 3))
        ELSE IF kw = <<"f", "n">>
        THEN Return(r.position, Token("Fn", <<>>, <<>>, start, 2))
        ELSE IF kw = <<"i", "f">>
        THEN Return(r.position, Token("If", <<>>, <<>>, start, 2))
        ELSE Return(r.position, Token("Identifier", kw, <<>>, start, input_len(kw)))

\* 'a'..='z' | 'A'..='Z' => keyword or Identifier
letter_arm(inp, pos) ==
    LET start == pos
        r == read_keyword(inp, pos)
        kw == r.text.str
    IN  IF ~r.text.ok
        THEN Return(r.position, Panic("byte index is not a char boundary", None, start))
        ELSE IF kw = <<"v", "a", "l">>
        THEN Return(r.position, Token("Val", <<>>, <<>>, start, 3))
        ELSE IF kw = <<"v", "a", "r">>
        THEN Return(r.position, Token("Var", <<>>, <<>>, start, 3))
        ELSE IF kw = <<"f", "n">>
        THEN Return(r.position, Token("Fn", <<>>, <<>>, start, 2))
        ELSE Return(r.position, Token("Identifier", kw, <<>>, start, input_len(kw)))

\* '0'..='9' => IntLiteral
digit_arm(inp, pos) ==
    LET start == pos
        r == read_integer(inp, pos)
    IN  IF ~r.text.ok
        THEN Return(r.position, Panic("byte index is not a char boundary", None, start))
        ELSE IF ~r.parsed.ok
        THEN Return(r.position, Panic("called unwrap on an Err value", None, start))
        ELSE Return(r.position,
                    Token("IntLiteral", <<>>, r.parsed.value, start, r.position - start))

\* a variant of other_arm that takes the character before it panics
other_arm_skipping(inp, pos) ==
    Return(advance(inp, pos, 1),
           Panic("Unexpected character", peek(inp, pos, 0), pos))

\* ch => panic!
other_arm(inp, pos) ==
    Return(pos, Panic("Unexpected character", peek(inp, pos, 0), pos))

\* the match of next_token: the arm taken with the cursor at pos
dispatch(inp, pos) ==
    LET ch == peek(inp, pos, 0)
    IN  IF ch = None THEN eof_arm(inp, pos)
        ELSE IF is_whitespace(ch) THEN whitespace_arm(inp, pos)
        ELSE IF ch \in SingleChars THEN single_arm(inp, pos)
        ELSE IF ch \in EqualsChars THEN equals_arm(inp, pos)
        ELSE IF ch = "/" THEN slash_arm(inp, pos)
        ELSE IF ch \in PairChars THEN pair_arm(inp, pos)
        ELSE IF ch \in Letters THEN letter_arm(inp, pos)
        ELSE IF ch \in Digits THEN digit_arm(inp, pos)
        ELSE other_arm(inp, pos)

RECURSIVE lex(_, _)
\* next_token called again and again from cursor pos: what the calls give,
\* up to the first Eof or the first panic
lex(inp, pos) ==
    LET r == dispatch(inp, pos)
    IN  IF r.recurse THEN lex(inp, r.position)
        ELSE IF r.ret.outcome = "panic" \/ r.ret.kind = "Eof" THEN <<r.ret>>
        ELSE <<r.ret>> \o lex(inp, r.position)

(***************************************************************************)
(* The state machine: one Lexer, its caller calling next_token again and   *)
(* again.  A step is one activation of next_token.                         *)
(***************************************************************************)
VARIABLES
    input,      \* Lexer.input
    position,   \* Lexer.position
    depth,      \* activations of next_token on the stack (0: no call runs)
    ret,        \* what the last finished call returned, or its panic
    call_pos,   \* the cursor when the running (or last) call was made
    tokens,     \* what each finished call gave, up to the first Eof or panic
    eofs        \* calls that returned Eof so far (counted up to MaxEofs)

vars == <<input, position, depth, ret, call_pos, tokens, eofs>>

\* the texts of at most n characters over an alphabet
Texts(alphabet, n) == UNION {[1..k -> alphabet] : k \in 0..n}

GeneralAlphabet == {" ", "\n", NBSP, "/", "&", "^", "+", "1", "x"}
KeywordAlphabet == {"v", "a", "l", "r", "f", "n", "_", " ", NBSP}
OperatorAlphabet ==
    SingleChars \cup EqualsChars \cup PairChars
        \cup {"/", " ", IDEOGRAPHIC_SPACE, E_ACUTE, "f", "n", "0", "7"}
ComparisonAlphabet == EqualsChars \cup {" "}

CommentAlphabet == {"/", "\n", NBSP, "x", "2"}
ControlFlowAlphabet == {"i", "f", "e", "l", "s", "^"}

Inputs ==
    Texts(GeneralAlphabet, MaxLen) \cup Texts(KeywordAlphabet, MaxLenKw)
        \cup Texts(OperatorAlphabet, MaxLenOps)
        \cup Texts(ComparisonAlphabet, MaxLenEq)
        \cup Texts(CommentAlphabet, MaxLenCm)
        \cup Texts(ControlFlowAlphabet, MaxLenCf)

\* digit runs at the edge of the isize range: isize::MAX and its neighbours
\* in the last digit, with a zero in front, with a digit more
BoundaryRuns ==
    {SubSeq(ISIZE_MAX, 1, Len(ISIZE_MAX) - 1) \o <<d>> : d \in {"6", "7", "8", "9"}}
        \cup {<<"0">> \o ISIZE_MAX, <<"0">> \o ISIZE_MIN_ABS, ISIZE_MAX \o <<"0">>}

LongInputs ==
    {pre \o run \o post : pre \in Texts({" ", "+", "-"}, MaxLenLead),
                           run \in BoundaryRuns,
                           post \in {<<>>, <<";">>, <<"x">>}}

\* Lexer::new
Init ==
    /\ input \in Inputs
    /\ position = 0
    /\ depth = 0
    /\ ret = NoResult
    /\ call_pos = 0
    /\ tokens = <<>>
    /\ eofs = 0

\* the caller has seen Eof or a panic
Ended ==
    /\ tokens # <<>>
    /\ \/ tokens[Len(tokens)].kind = "Eof"
       \/ tokens[Len(tokens)].outcome = "panic"

\* one activation ends as r says
Apply(r) ==
    /\ position' = r.position
    /\ call_pos' = IF depth = 0 THEN position ELSE call_pos
    /\ depth' = IF r.recurse THEN depth + 1 ELSE 0
    /\ ret' = IF r.recurse THEN ret ELSE r.ret
    /\ tokens' = IF ~r.recurse /\ ~Ended
                 THEN Append(tokens, r.ret) ELSE tokens
    /\ eofs' = IF ~r.recurse /\ r.ret.outcome = "token" /\ r.ret.kind = "Eof"
                  /\ eofs < MaxEofs
               THEN eofs + 1 ELSE eofs
    /\ UNCHANGED input

ch0 == peek(input, position, 0)

AtEof == ch0 = None /\ Apply(eof_arm(input, position))

SkipWhitespace ==
    ch0 # None /\ is_whitespace(ch0) /\ Apply(whitespace_arm(input, position))

Single == ch0 \in SingleChars /\ Apply(single_arm(input, position))

WithOrWithoutEquals == ch0 \in EqualsChars /\ Apply(equals_arm(input, position))

Slash == ch0 = "/" /\ Apply(slash_arm(input, position))

Pair == ch0 \in PairChars /\ Apply(pair_arm(input, position))

Letter == ch0 \in Letters /\ Apply(letter_arm(input, position))

Digit == ch0 \in Digits /\ Apply(digit_arm(input, position))

Other ==
    /\ ch0 # None
    /\ ~is_whitespace(ch0)
    /\ ch0 \notin SingleChars \cup EqualsChars \cup PairChars \cup {"/"}
    /\ ch0 \notin Letters \cup Digits
    /\ Apply(other_arm(input, position))

Next ==
    \/ AtEof
    \/ SkipWhitespace
    \/ Single
    \/ WithOrWithoutEquals
    \/ Slash
    \/ Pair
    \/ Letter
    \/ Digit
    \/ Other

Spec == Init /\ [][Next]_vars

(***************************************************************************)
(* The Lexer with its private methods advance and next called between      *)
(* calls of next_token, as code of the module (its tests) can call them.   *)
(***************************************************************************)
AdvanceAlphabet ==
    {" ", NBSP, IDEOGRAPHIC_SPACE, "+", "=", "/", "&", "x", "1", "^"}

InitAdvance ==
    /\ input \in Texts(AdvanceAlphabet, MaxLenAdv)
    /\ position = 0
    /\ depth = 0
    /\ ret = NoResult
    /\ call_pos = 0
    /\ tokens = <<>>
    /\ eofs = 0

\* self.advance(count), outside next_token
AdvanceCall(count) ==
    /\ depth = 0
    /\ IF advance(input, position, count) = AssertionFailed
       THEN /\ ret' = Panic("Count must be greater than zero", None, position)
            /\ position' = position
       ELSE /\ ret' = ret
            /\ position' = advance(input, position, count)
    /\ UNCHANGED <<input, depth, call_pos, tokens, eofs>>

\* self.next(), outside next_token
NextCall ==
    /\ depth = 0
    /\ position' = Lexer_next(input, position).position
    /\ UNCHANGED <<input, depth, ret, call_pos, tokens, eofs>>

NextAdvance ==
    \/ Next
    \/ \E count \in 0..MaxCount : AdvanceCall(count)
    \/ NextCall

SpecAdvance == InitAdvance /\ [][NextAdvance]_vars

\* Lexer::new on the texts of Inputs and on those with a long digit run
InitLong ==
    /\ input \in Inputs \cup LongInputs
    /\ position = 0
    /\ depth = 0
    /\ ret = NoResult
    /\ call_pos = 0
    /\ tokens = <<>>
    /\ eofs = 0

SpecLong == InitLong /\ [][Next]_vars

(***************************************************************************)
(* What the properties below speak of.                                     *)
(***************************************************************************)
\* a call of next_token has finished, and ret is what it gave
Finished == depth = 0 /\ ret.outcome # "none"

ReturnedToken == Finished /\ ret.outcome = "token"

\* the characters of the text at character offsets [a, b)
Chars(inp, a, b) == SubSeq(inp, a + 1, b)

\* the character at character offset i starts no token: a lone '&', a lone
\* '|', or a character no arm of the dispatch is for
MalformedAt(inp, i) ==
    /\ i < Len(inp)
    /\ LET c == inp[i + 1]
           follows == IF i + 1 < Len(inp) THEN inp[i + 2] ELSE None
       IN  \/ c \in {"&", "|"} /\ follows # c
           \/ /\ ~is_whitespace(c)
              /\ c \notin {"(", ")", "[", "]", "{", "}", ",", ":", "=", "+",
                           "-", "*", "/", "%", "<", ">", "&", "|", "!"}
              /\ c \notin Letters \cup Digits

\* the first newline at or after character offset i, or the end of the text
line_end(inp, i) ==
    CHOOSE j \in i..Len(inp) :
        /\ j = Len(inp) \/ inp[j + 1] = "\n"
        /\ \A k \in i..(j - 1) : inp[k + 1] # "\n"

RECURSIVE significant(_, _)
\* the first character offset at or after i that is neither whitespace nor
\* inside a line comment ("//" up to the next newline), or the end of the text
significant(inp, i) ==
    IF i >= Len(inp) THEN Len(inp)
    ELSE IF is_whitespace(inp[i + 1]) THEN significant(inp, i + 1)
    ELSE IF inp[i + 1] = "/" /\ i + 1 < Len(inp) /\ inp[i + 2] = "/"
    THEN significant(inp, line_end(inp, i))
    ELSE i

\* the maximal run of characters in [A-Za-z0-9_] from character offset i
word_at(inp, i) ==
    LET j == CHOOSE j \in i..Len(inp) :
                 /\ \A k \in (i + 1)..j : inp[k] \in Letters \cup Digits \cup {"_"}
                 /\ j = Len(inp) \/ inp[j + 1] \notin Letters \cup Digits \cup {"_"}
    IN  Chars(inp, i, j)

\* the maximal run of ASCII digits from character offset i
digits_at(inp, i) ==
    LET j == CHOOSE j \in i..Len(inp) :
                 /\ \A k \in (i + 1)..j : inp[k] \in Digits
                 /\ j = Len(inp) \/ inp[j + 1] \notin Digits
    IN  Chars(inp, i, j)

RECURSIVE strip_comments(_, _)
\* the text from character offset i on with every line comment ("//" up to
\* but excluding the next newline) removed
strip_comments(inp, i) ==
    IF i >= Len(inp) THEN <<>>
    ELSE IF inp[i + 1] = "/" /\ i + 1 < Len(inp) /\ inp[i + 2] = "/"
    THEN strip_comments(inp, line_end(inp, i))
    ELSE <<inp[i + 1]>> \o strip_comments(inp, i + 1)

\* the kinds and payloads of a sequence of tokens, without their spans
Payloads(ts) == [k \in 1..Len(ts) |-> <<ts[k].kind, ts[k].name, ts[k].value>>]

RECURSIVE number_of(_)
\* the number a string of ASCII digits denotes in decimal
number_of(ds) ==
    IF ds = <<>> THEN 0
    ELSE 10 * number_of(SubSeq(ds, 1, Len(ds) - 1)) + DigitVal(ds[Len(ds)])

\* the number an IntLiteral's value is
value_of(v) ==
    IF v # <<>> /\ Head(v) = "-" THEN 0 - number_of(Tail(v)) ELSE number_of(v)

\* the calls have run to Eof with no failure on the way
LexedToEof == tokens # <<>> /\ tokens[Len(tokens)].kind = "Eof"

\* every character of the text is whitespace or begins a token wherever it
\* stands: no '&', no '|', no character without a dispatch rule
NoMalformedChar(inp) ==
    \A k \in 1..Len(inp) :
        \/ is_whitespace(inp[k])
        \/ inp[k] \in {"(", ")", "[", "]", "{", "}", ",", ":", "=", "+",
                       "-", "*", "/", "%", "<", ">", "!"}
        \/ inp[k] \in Letters \cup Digits

(***************************************************************************)
(* C1: a next_token call that meets malformed input (a lone '&', a lone    *)
(* '|', a lead character no dispatch rule is for) ends by returning a      *)
(* recoverable error value to its caller, never in a panic.                *)
(***************************************************************************)
C1_MalformedInputIsAnErrorValue ==
    (Finished /\ ret.outcome # "token" /\ MalformedAt(input, position))
        => ret.outcome = "error"

(***************************************************************************)
(* C2: once a call has returned Eof, every later call returns Eof with the *)
(* same zero-length span and leaves the cursor where it is; no other token *)
(* and no failure follows the first Eof.                                   *)
(***************************************************************************)
C2_PostEofIdempotent ==
    [][(ReturnedToken /\ ret.kind = "Eof")
          => /\ depth' = 0
             /\ ret' = ret
             /\ ret'.start = ret'.end
             /\ position' = position]_vars

\* a second call has returned Eof, on a text with a multi-byte character
C2_Witness ==
    /\ ReturnedToken /\ ret.kind = "Eof"
    /\ eofs >= 2
    /\ position < input_len(input)

(***************************************************************************)
(* C3: on a text with no malformed character the calls return finitely     *)
(* many non-Eof tokens and then Eof: no call fails, a call that returns a  *)
(* non-Eof token ends with the cursor beyond where it began, and a         *)
(* whitespace or comment skip inside a call moves the cursor forward.      *)
(***************************************************************************)
C3_Progress ==
    /\ (ReturnedToken /\ ret.kind # "Eof") => position > call_pos
    /\ depth > 0 => position > call_pos

\* C3: on a text with no malformed character no call fails and every call
\* and skip makes progress, so the calls reach Eof
C3_NoMalformedCharTerminates ==
    NoMalformedChar(input) => (ret.outcome # "panic" /\ C3_Progress)

(***************************************************************************)
(* C4: a call fails with "Unexpected character" exactly when the character *)
(* c found at offset i, after the whitespace and line comments from the    *)
(* cursor are skipped, is a lone '&', a lone '|' or a character with no    *)
(* dispatch rule; the failure names c and i (the character offset of c in  *)
(* the text), and that call returns no token.                              *)
(***************************************************************************)
C4_UnexpectedCharacterExactly ==
    Finished =>
        LET i == significant(input, call_pos)
        IN  /\ (ret.outcome = "panic" /\ ret.kind = "Unexpected character")
                  <=> MalformedAt(input, i)
            /\ MalformedAt(input, i) =>
                  /\ ret.outcome # "token"
                  /\ ret.ch = input[i + 1]
                  /\ ret.at = i
                  /\ position = i

\* a call skipped a comment and whitespace and then failed on a lone '&'
C4_Witness ==
    /\ Finished /\ ret.outcome = "panic" /\ ret.kind = "Unexpected character"
    /\ ret.ch = "&" /\ ret.at > call_pos + 2
    /\ input[call_pos + 1] = "/"

(***************************************************************************)
(* C5: with a letter at the cursor, next_token consumes the maximal run of *)
(* [A-Za-z0-9_] from there; it returns Val, Var or Fn (span length 3, 3,   *)
(* 2) exactly when the run is "val", "var" or "fn", and otherwise          *)
(* Identifier holding the whole run, with the run's length as span length. *)
(***************************************************************************)
C5_Step ==
    ch0 \in Letters =>
          LET run == word_at(input, position)
              t == ret'
          IN  /\ depth' = 0 /\ t.outcome = "token"
              /\ t.start = position
              /\ position' = position + Len(run)
              /\ (t.kind = "Val" <=> run = <<"v", "a", "l">>)
              /\ (t.kind = "Var" <=> run = <<"v", "a", "r">>)
              /\ (t.kind = "Fn" <=> run = <<"f", "n">>)
              /\ t.kind \in {"Val", "Var"} => span_len(t) = 3
              /\ t.kind = "Fn" => span_len(t) = 2
              /\ t.kind \notin {"Val", "Var", "Fn"} =>
                    /\ t.kind = "Identifier"
                    /\ t.name = run
                    /\ span_len(t) = Len(run)

\* C5: every step taken with a letter at the cursor is as C5_Step says
C5_KeywordOrIdentifier == [][C5_Step]_vars

(***************************************************************************)
(* C6: at '=', '<', '>' or '!' the lexer returns Equals, LessThanOrEqual,  *)
(* GreaterThanOrEqual or NotEquals with span length 2 exactly when the     *)
(* next character is '=', and otherwise Assign, LessThan, GreaterThan or   *)
(* Not with span length 1; the cursor advances by the span length.         *)
(***************************************************************************)
C6_Kind(c, two) ==
    CASE c = "=" -> IF two THEN "Equals" ELSE "Assign"
      [] c = "<" -> IF two THEN "LessThanOrEqual" ELSE "LessThan"
      [] c = ">" -> IF two THEN "GreaterThanOrEqual" ELSE "GreaterThan"
      [] c = "!" -> IF two THEN "NotEquals" ELSE "Not"

C6_Step ==
    ch0 \in {"=", "<", ">", "!"} =>
          LET two == position + 1 < Len(input) /\ input[position + 2] = "="
              t == ret'
          IN  /\ depth' = 0 /\ t.outcome = "token"
              /\ t.start = position
              /\ position' = position + span_len(t)
              /\ span_len(t) = IF two THEN 2 ELSE 1
              /\ t.kind = C6_Kind(ch0, two)

\* C6: every step taken with '=', '<', '>' or '!' at the cursor is as C6_Step
\* says
C6_LongestMatch == [][C6_Step]_vars

\* "===" has lexed as Equals [0,2) and then Assign [2,3)
C6_Witness ==
    /\ input = <<"=", "=", "=">>
    /\ Len(tokens) >= 2
    /\ tokens[1].kind = "Equals" /\ tokens[1].start = 0 /\ tokens[1].end = 2
    /\ tokens[2].kind = "Assign" /\ tokens[2].start = 2 /\ tokens[2].end = 3
    /\ position = 3

(***************************************************************************)
(* C7: at "//" next_token emits no token, moves the cursor to the first    *)
(* newline at or after it (or to the end of the text) and dispatches from  *)
(* there; a '/' not followed by '/' is Divide with span length 1; and the  *)
(* tokens of a text are those of the text with its line comments removed.  *)
(***************************************************************************)
C7_SlashStep ==
    ch0 = "/" =>
          IF position + 1 < Len(input) /\ input[position + 2] = "/"
          THEN /\ depth' = depth + 1
               /\ position' = line_end(input, position)
               /\ ret' = ret /\ tokens' = tokens
          ELSE /\ depth' = 0 /\ ret'.outcome = "token"
               /\ ret'.kind = "Divide" /\ span_len(ret') = 1
               /\ ret'.start = position /\ position' = position + 1

C7_CommentsAreInvisible ==
    Ended => Payloads(tokens) = Payloads(lex(strip_comments(input, 0), 0))

\* C7: every step taken with '/' at the cursor is as C7_SlashStep says, and
\* line comments never change the tokens a text gives
C7_LineComments == [][C7_SlashStep]_vars /\ []C7_CommentsAreInvisible

C9_SpansCoverLexemes ==
    ReturnedToken =>
        /\ ret.kind = "Identifier" =>
              Chars(input, ret.start, ret.end) = ret.name
        /\ ret.kind = "IntLiteral" =>
              /\ Chars(input, ret.start, ret.end) = digits_at(input, ret.start)
              /\ value_of(ret.value) = number_of(digits_at(input, ret.start))

(***************************************************************************)
(* C10: on a text that lexes without error, when next_token returns Eof    *)
(* the cursor equals input.len() and the Eof token's span is               *)
(* [input.len(), input.len()), whatever whitespace the text holds; the     *)
(* empty text gives exactly one token, Eof with span [0,0).                *)
(***************************************************************************)
C10_EofAtInputLen ==
    LexedToEof =>
        LET eof == tokens[Len(tokens)]
        IN  /\ position = input_len(input)
            /\ eof.start = input_len(input) /\ eof.end = input_len(input)
            /\ input = <<>> =>
                  /\ Len(tokens) = 1
                  /\ eof.start = 0 /\ eof.end = 0

\* the offsets at or after i that lie inside a line comment, for a scan that
\* is outside any comment at i: from "//" up to the newline or end of text
RECURSIVE CommentOffsets(_, _)
CommentOffsets(inp, i) ==
    IF i >= Len(inp) THEN {}
    ELSE IF inp[i + 1] = "/" /\ i + 1 < Len(inp) /\ inp[i + 2] = "/"
    THEN (i..(line_end(inp, i) - 1)) \cup CommentOffsets(inp, line_end(inp, i))
    ELSE CommentOffsets(inp, i + 1)

(***************************************************************************)
(* C11: every token returned has span.start <= span.end, and of two tokens *)
(* returned by consecutive successful calls the later starts at or after   *)
(* the earlier's end: exactly at it when no whitespace or comment          *)
(* character lies between them, and otherwise right after the whitespace   *)
(* and comments that follow the earlier token.                             *)
(***************************************************************************)
C11_Step ==
    (ret.outcome = "token" /\ depth' = 0 /\ ret'.outcome = "token") =>
        /\ ret.start <= ret.end
        /\ ret'.start <= ret'.end
        /\ ret'.start >= ret.end
        /\ ret'.start = significant(input, ret.end)
        /\ (ret'.start = ret.end) <=>
              \/ ret.end = Len(input)
              \/ /\ ~is_whitespace(input[ret.end + 1])
                 /\ ret.end \notin CommentOffsets(input, ret.end)
        /\ \A i \in ret.end..(ret'.start - 1) :
              \/ is_whitespace(input[i + 1])
              \/ i \in CommentOffsets(input, ret.end)

\* C11: every step that ends a call right after a call that returned a token
\* is as C11_Step says
C11_SpanOrdering == [][C11_Step]_vars

\* three tokens: the second starts where the first ends, the third after a gap
C11_Witness ==
    /\ Len(tokens) >= 3
    /\ tokens[3].outcome = "token" /\ tokens[3].kind # "Eof"
    /\ tokens[2].start = tokens[1].end
    /\ tokens[3].start > tokens[2].end

(***************************************************************************)
(* C12: when the maximal digit run at the cursor denotes a value the       *)
(* signed integer type cannot hold, the call ends by returning an          *)
(* integer-literal error that carries the run's start offset and its       *)
(* digits: it neither aborts nor returns an IntLiteral.                    *)
(***************************************************************************)
\* the digit run is a value of the signed type: at most isize::MAX
Representable(run) == fits(strip_zeros(run), ISIZE_MAX)

C12_Step ==
    (ch0 \in Digits /\ ~Representable(digits_at(input, position))) =>
        /\ depth' = 0
        /\ ret'.outcome = "error"
        /\ ret'.kind = "IntegerLiteralError"
        /\ ret'.at = position
        /\ ret'.value = digits_at(input, position)

\* C12: every step taken at a digit run out of range is as C12_Step says
C12_IntegerLiteralError == [][C12_Step]_vars

(***************************************************************************)
(* C14: in every reachable state the cursor is between 0 and the length of *)
(* the text (its character count, and so its byte length input.len() too), *)
(* and no step moves the cursor back or changes the text: not a step that  *)
(* returns a token, skips whitespace or a comment, returns Eof, or fails.  *)
(***************************************************************************)
C14_Bounds ==
    /\ 0 <= position
    /\ position <= Len(input)
    /\ position <= input_len(input)

C14_Step == position' >= position /\ input' = input

C14_CursorInvariant == []C14_Bounds /\ [][C14_Step]_vars

\* a failed call has left the cursor past whitespace it skipped, at the last
\* character of a text with a multi-byte character
C14_Witness ==
    /\ Finished /\ ret.outcome = "panic"
    /\ position > call_pos
    /\ position = Len(input) - 1
    /\ input_len(input) > Len(input)

(***************************************************************************)
(* C15: the two assertions of consume (count > 0, cursor + count <=        *)
(* input.len()) hold at every call next_token makes of it: no call ends in *)
(* the panic of either assertion, and every token consume built covers     *)
(* at least one character and ends within the text.                        *)
(***************************************************************************)
ConsumedKinds ==
    {SingleKind(c) : c \in SingleChars}
        \cup {WithEqualsKind(c) : c \in EqualsChars}
        \cup {AloneKind(c) : c \in EqualsChars}
        \cup {PairKind(c) : c \in PairChars} \cup {"Divide"}

C15_ConsumePreconditions ==
    /\ ret.kind \notin {"Count must be greater than zero",
                        "Count exceeds input length"}
    /\ (ReturnedToken /\ ret.kind \in ConsumedKinds) =>
          /\ span_len(ret) > 0
          /\ ret.end <= Len(input)
          /\ ret.end <= input_len(input)

\* a two-character consume took the last two characters of an ASCII text, so
\* cursor + count was exactly input.len()
C15_Witness ==
    /\ ReturnedToken /\ ret.kind \in {"And", "Equals"}
    /\ span_len(ret) = 2
    /\ ret.end = input_len(input)

(***************************************************************************)
(* C16: no call returns a token of kind If, Elif, Else or Exponent.  The   *)
(* texts "if", "elif" and "else" lex as one Identifier holding that text,  *)
(* then Eof; a call that meets '^' fails with '^' as unexpected character. *)
(***************************************************************************)
ControlFlowWords ==
    {<<"i", "f">>, <<"e", "l", "i", "f">>, <<"e", "l", "s", "e">>}

C16_NeverProduced ==
    /\ ret.kind \notin {"If", "Elif", "Else", "Exponent"}
    /\ \A k \in 1..Len(tokens) :
           tokens[k].kind \notin {"If", "Elif", "Else", "Exponent"}
    /\ (input \in ControlFlowWords /\ tokens # <<>>) =>
          /\ tokens[1].outcome = "token"
          /\ tokens[1].kind = "Identifier"
          /\ tokens[1].name = input
          /\ tokens[1].start = 0 /\ tokens[1].end = Len(input)
          /\ Len(tokens) >= 2 => tokens[2].kind = "Eof"
    /\ LET lead == significant(input, call_pos)
       IN  (Finished /\ lead < Len(input) /\ input[lead + 1] = "^") =>
               /\ ret.outcome = "panic"
               /\ ret.kind = "Unexpected character"
               /\ ret.ch = "^"
               /\ ret.at = lead

\* "elif" has been lexed to its end
C16_Witness ==
    /\ input = <<"e", "l", "i", "f">>
    /\ LexedToEof
    /\ tokens[1].kind = "Identifier"

(***************************************************************************)
(* C17: after every call that returns a token the cursor equals the        *)
(* token's span.end, for the tokens consume builds and for the keyword,    *)
(* Identifier and IntLiteral tokens built with Token::new from a size      *)
(* computed apart from the cursor (3, 3, 2 for val, var, fn).              *)
(***************************************************************************)
C17_CursorAtSpanEnd == ReturnedToken => position = ret.end

\* fn has been returned by a call that began past the start of the text
C17_Witness == ReturnedToken /\ ret.kind = "Fn" /\ ret.start > 0

(***************************************************************************)
(* C18: when a text has been lexed from offset 0 to Eof without a failure, *)
(* every character offset of the text either is a whitespace character or  *)
(* lies inside a line comment ("//" up to but excluding the next newline)  *)
(* and is in no token's span, or is neither and is in the span of exactly  *)
(* one returned token other than Eof.                                      *)
(***************************************************************************)
\* the tokens other than Eof whose span holds character offset i
Covering(i) ==
    {k \in 1..Len(tokens) :
        /\ tokens[k].kind # "Eof"
        /\ tokens[k].start <= i /\ i < tokens[k].end}

Skipped(i) == is_whitespace(input[i + 1]) \/ i \in CommentOffsets(input, 0)

C18_Coverage ==
    LexedToEof =>
        \A i \in 0..(Len(input) - 1) :
            IF Skipped(i) THEN Covering(i) = {}
            ELSE Cardinality(Covering(i)) = 1

\* a text with whitespace, a comment and two tokens or more has been lexed
C18_Witness ==
    /\ LexedToEof
    /\ Len(tokens) >= 3
    /\ CommentOffsets(input, 0) # {}
    /\ \E i \in 0..(Len(input) - 1) :
           is_whitespace(input[i + 1]) /\ i \notin CommentOffsets(input, 0)

(***************************************************************************)
(* C19: when a call has failed on an unexpected character at offset i, the *)
(* cursor is exactly at i, with the whitespace and comments before i       *)
(* consumed and the character itself not; the next call on the same Lexer  *)
(* fails in one step with the same character and offset and leaves the     *)
(* cursor at i.                                                            *)
(***************************************************************************)
C19_Step ==
    (Finished /\ ret.outcome = "panic" /\ ret.kind = "Unexpected character") =>
        /\ position = ret.at
        /\ position = significant(input, call_pos)
        /\ position < Len(input) /\ input[position + 1] = ret.ch
        /\ depth' = 0
        /\ ret' = ret
        /\ position' = position

\* C19: every step taken after a failure on an unexpected character is as
\* C19_Step says
C19_FailedCallStaysPut == [][C19_Step]_vars

\* a second call has failed at offset 1: the first one began at 0 and skipped
\* the whitespace there, the second began at 1
C19_Witness ==
    /\ Finished /\ ret.outcome = "panic" /\ ret.kind = "Unexpected character"
    /\ is_whitespace(input[1])
    /\ ret.at = 1 /\ call_pos = 1

(***************************************************************************)
(* C20: advance(count) with count > 0 sets the cursor to                   *)
(* min(cursor + count, input.len()) and changes nothing else, so from the  *)
(* end of the text it leaves the cursor at input.len(); next() moves the   *)
(* cursor as advance(1) does; advance(0) fails its assertion and leaves    *)
(* the cursor alone; and no step of next_token fails that assertion.       *)
(***************************************************************************)
Min(a, b) == IF a <= b THEN a ELSE b

C20_Step ==
    /\ \A count \in 1..MaxCount :
           AdvanceCall(count) =>
               /\ position' = Min(position + count, input_len(input))
               /\ position = input_len(input) => position' = input_len(input)
               /\ UNCHANGED <<input, depth, ret, call_pos, tokens, eofs>>
    /\ AdvanceCall(0) =>
           /\ ret'.outcome = "panic"
           /\ ret'.kind = "Count must be greater than zero"
           /\ UNCHANGED <<input, position>>
    /\ NextCall =>
           /\ position' = Min(position + 1, input_len(input))
           /\ UNCHANGED input
    /\ Next =>
           /\ position' # AssertionFailed
           /\ depth' = 0 => ret'.kind # "Count must be greater than zero"

C20_AdvanceClamps == [][C20_Step]_vars

\* with no call of next_token made, advance or next has brought the cursor
\* to input.len(), past the character count of a multi-byte text
C20_Witness ==
    /\ depth = 0 /\ ret.outcome = "none"
    /\ position = input_len(input)
    /\ position > Len(input)

=============================================================================
